---- MODULE Spec2Model ----
(***************************************************************************)
(* A model of src/app.py: the schedule parser (name detection, line        *)
(* classification, entry extraction), the week-number computation, the     *)
(* week grid builder and the page script's batch upload loop.              *)
(*                                                                         *)
(* Text is modelled as Python models it: a str is a sequence of Unicode    *)
(* code points.  A character is its code point (an integer), so that the   *)
(* order of strings is Python's order of strings.                          *)
(***************************************************************************)
EXTENDS Integers, Sequences, FiniteSets, TLC

VARIABLES
    mode,              \* which part of the program this behaviour runs
    pc,                \* position in the running function / script
    file_bytes,        \* parse_pdf_schedule: the document, <<>> of pages
    fallback_name,     \* parse_pdf_schedule / detect_student_name: fallback
    text,              \* parse_pdf_schedule: extracted text
    student_name,      \* parse_pdf_schedule: detected name
    lines,             \* parse_pdf_schedule: lines of text not yet visited
    entries,           \* parse_pdf_schedule: entries ; build_week_dataframe: input
    line,              \* parse_course_entry: its argument in the last call
    remaining,         \* parse_course_entry: local `remaining` of the last call
    entry,             \* parse_course_entry: result of the last call, <<>> is None
    semester_start,    \* page script: date input (proleptic ordinal)
    reference_date,    \* page script: date input (proleptic ordinal)
    current_week,      \* page script: week shown
    week,              \* build_week_dataframe: argument
    filtered,          \* build_week_dataframe: entries of the week not yet placed
    time_slots,        \* build_week_dataframe: sorted distinct time ranges
    table,             \* build_week_dataframe: slot -> weekday -> cell text
    df_rows,           \* build_week_dataframe: rows of the returned frame
    uploaded_files,    \* page script: uploaded files
    idx,               \* page script: number of files the loop has visited
    all_entries,       \* page script
    student_names,     \* page script
    errors,            \* page script: file names reported through st.error
    selected_students, \* page script: the multiselect's value
    filtered_entries   \* page script

vars == << mode, pc, file_bytes, fallback_name, text, student_name, lines,
           entries, line, remaining, entry, semester_start, reference_date,
           current_week, week, filtered, time_slots, table, df_rows,
           uploaded_files, idx, all_entries, student_names, errors,
           selected_students, filtered_entries >>

(***************************************************************************)
(* Characters the patterns and literals of app.py name: a character is its *)
(* Unicode code point.                                                     *)
(***************************************************************************)
CH_tab == 9           \* \t
CH_nl == 10           \* \n
CH_sp == 32           \* the space
CH_hyphen == 45       \* -
CH_dot == 46          \* .
CH_zero == 48         \* 0
CH_nine == 57         \* 9
CH_colon == 58        \* :
CH_upA == 65          \* A
CH_upZ == 90          \* Z
CH_loA == 97          \* a
CH_loZ == 122         \* z
CH_tilde == 126       \* ~
CH_endash == 8211     \* –
CH_di == 31532        \* 第
CH_zhou == 21608      \* 周
CH_star == 26143      \* 星
CH_qi == 26399        \* 期
CH_yi == 19968        \* 一
CH_er == 20108        \* 二
CH_san == 19977       \* 三
CH_si == 22235        \* 四
CH_wu == 20116        \* 五
CH_liu == 20845       \* 六
CH_ri == 26085        \* 日
CH_tian == 22825      \* 天
CH_zhi == 33267       \* 至
CH_dao == 21040       \* 到
CH_jiao == 25945      \* 教
CH_shi == 23460       \* 室
CH_lou == 27004       \* 楼
CH_xue == 23398       \* 学
CH_sheng == 29983     \* 生
CH_xing == 22995      \* 姓
CH_ming == 21517      \* 名
CH_fcolon == 65306    \* ：
CH_ke == 35838        \* 课
CH_cheng == 31243     \* 程
CH_none == 26080      \* 无
CH_lparen == 65288    \* （
CH_rparen == 65289    \* ）

\* regex classes \d, \s, [A-Za-z] (on the characters the model's texts use)
IsDigit(c) == c >= CH_zero /\ c <= CH_nine
IsSpace(c) == c \in {CH_sp, CH_tab, CH_nl}
IsLatin(c) == (c >= CH_upA /\ c <= CH_upZ) \/ (c >= CH_loA /\ c <= CH_loZ)

\* a str, and a list of str
Str == Seq(Int)
StrList == Seq(Str)

(***************************************************************************)
(* The helpers that work on strings are functions: a function's argument   *)
(* is evaluated once, when the function is applied.                        *)
(***************************************************************************)
\* greedy \s*, \d*, \S*, [A-Za-z\s]* from position i: the position after the run
SkipSpaces[s \in Str, i \in Int] ==
    IF i <= Len(s) /\ IsSpace(s[i]) THEN SkipSpaces[s, i + 1] ELSE i

SkipDigits[s \in Str, i \in Int] ==
    IF i <= Len(s) /\ IsDigit(s[i]) THEN SkipDigits[s, i + 1] ELSE i

SkipNonSpaces[s \in Str, i \in Int] ==
    IF i <= Len(s) /\ ~IsSpace(s[i]) THEN SkipNonSpaces[s, i + 1] ELSE i

SkipLatinSpaces[s \in Str, i \in Int] ==
    IF i <= Len(s) /\ (IsLatin(s[i]) \/ IsSpace(s[i]))
    THEN SkipLatinSpaces[s, i + 1] ELSE i

\* a regex match: start, stop (one past the end), groups 1 and 2 (<<>> is None)
NoMatch == [start |-> 0, stop |-> 0, g1 |-> <<>>, g2 |-> <<>>]
Matched(m) == m.start # 0
Group0(s, m) == SubSeq(s, m.start, m.stop - 1)

\* str.strip()
LastNonSpace[s \in Str, i \in Int] ==
    IF i >= 1 /\ IsSpace(s[i]) THEN LastNonSpace[s, i - 1] ELSE i

Strip[s \in Str] == SubSeq(s, SkipSpaces[s, 1], LastNonSpace[s, Len(s)])

\* the position of the first sep at or after i, Len(s) + 1 when there is none
NextSep[s \in Str, sep \in Int, i \in Int] ==
    IF i <= Len(s) /\ s[i] # sep THEN NextSep[s, sep, i + 1] ELSE i

\* the pieces of s from position i on that sep separates
SplitFrom[s \in Str, sep \in Int, i \in Int] ==
    IF NextSep[s, sep, i] > Len(s) THEN <<SubSeq(s, i, Len(s))>>
    ELSE <<SubSeq(s, i, NextSep[s, sep, i] - 1)>>
         \o SplitFrom[s, sep, NextSep[s, sep, i] + 1]

\* str.split(sep) for a one-character sep
Split[s \in Str, sep \in Int] == SplitFrom[s, sep, 1]

\* str.splitlines() on "\n": no last empty line after a final newline
SplitLines[s \in Str] ==
    IF s = <<>> \/ s[Len(s)] = CH_nl
    THEN SubSeq(SplitFrom[s, CH_nl, 1], 1, Len(SplitFrom[s, CH_nl, 1]) - 1)
    ELSE SplitFrom[s, CH_nl, 1]

\* sep.join(parts)
Join[parts \in StrList, sep \in Str] ==
    IF parts = <<>> THEN <<>>
    ELSE IF Len(parts) = 1 THEN parts[1]
    ELSE parts[1] \o sep \o Join[Tail(parts), sep]

\* str.replace(old, new): every non-overlapping occurrence, left to right
Replace[s \in Str, old \in Str, new \in Str] ==
    IF Len(s) < Len(old) THEN s
    ELSE IF SubSeq(s, 1, Len(old)) = old
    THEN new \o Replace[SubSeq(s, Len(old) + 1, Len(s)), old, new]
    ELSE <<s[1]>> \o Replace[Tail(s), old, new]

\* re.sub(r"\s+", " ", s)
CollapseSpaces[s \in Str] ==
    IF s = <<>> THEN <<>>
    ELSE IF IsSpace(s[1])
    THEN <<CH_sp>> \o CollapseSpaces[SubSeq(s, SkipSpaces[s, 1], Len(s))]
    ELSE <<s[1]>> \o CollapseSpaces[Tail(s)]

\* int(digits)
ToInt[ds \in Str] ==
    IF ds = <<>> THEN 0
    ELSE 10 * ToInt[SubSeq(ds, 1, Len(ds) - 1)] + (ds[Len(ds)] - CH_zero)

\* str < str: Python compares strings by code point, a prefix first
StrLess[a \in Str, b \in Str] ==
    IF b = <<>> THEN FALSE
    ELSE IF a = <<>> THEN TRUE
    ELSE IF a[1] # b[1] THEN a[1] < b[1]
    ELSE StrLess[Tail(a), Tail(b)]

\* the least string of a set
MinString[S \in SUBSET Str] == CHOOSE x \in S : \A y \in S \ {x} : StrLess[x, y]

\* sorted(set of strings)
SortedStrings[S \in SUBSET Str] ==
    IF S = {} THEN <<>>
    ELSE <<MinString[S]>> \o SortedStrings[S \ {MinString[S]}]

\* set(list)
SeqToSet(q) == {q[i] : i \in 1..Len(q)}

DAY_MAP ==
    (<<CH_zhou, CH_yi>> :> 0) @@ (<<CH_star, CH_qi, CH_yi>> :> 0) @@
    (<<CH_zhou, CH_er>> :> 1) @@ (<<CH_star, CH_qi, CH_er>> :> 1) @@
    (<<CH_zhou, CH_san>> :> 2) @@ (<<CH_star, CH_qi, CH_san>> :> 2) @@
    (<<CH_zhou, CH_si>> :> 3) @@ (<<CH_star, CH_qi, CH_si>> :> 3) @@
    (<<CH_zhou, CH_wu>> :> 4) @@ (<<CH_star, CH_qi, CH_wu>> :> 4) @@
    (<<CH_zhou, CH_liu>> :> 5) @@ (<<CH_star, CH_qi, CH_liu>> :> 5) @@
    (<<CH_zhou, CH_ri>> :> 6) @@ (<<CH_star, CH_qi, CH_ri>> :> 6) @@
    (<<CH_zhou, CH_tian>> :> 6) @@ (<<CH_star, CH_qi, CH_tian>> :> 6)

DAY_NAMES ==
    << <<CH_zhou, CH_yi>>, <<CH_zhou, CH_er>>, <<CH_zhou, CH_san>>,
       <<CH_zhou, CH_si>>, <<CH_zhou, CH_wu>>, <<CH_zhou, CH_liu>>,
       <<CH_zhou, CH_ri>> >>

\* CourseEntry.includes_week
includes_week(e, w) == e.week_start <= w /\ w <= e.week_end

(***************************************************************************)
(* The three token patterns.  Each XAt(s, i) is the regex engine's match   *)
(* attempt at position i (greedy, first successful path); X_search is      *)
(* pattern.search: the attempt at the leftmost position that succeeds.     *)
(***************************************************************************)
WeekSeps == {CH_hyphen, CH_tilde, CH_zhi, CH_dao}
TimeSeps == {CH_hyphen, CH_endash, CH_tilde, CH_zhi, CH_dao}
DayChars == {CH_yi, CH_er, CH_san, CH_si, CH_wu, CH_liu, CH_ri, CH_tian}

\* 第\s*(\d+)(?:\s*[-~至到]\s*(\d+))?\s*周
WeekMatchAt(s, i) ==
    IF ~(i <= Len(s) /\ s[i] = CH_di) THEN NoMatch
    ELSE LET a == SkipSpaces[s, i + 1]
             b == SkipDigits[s, a]
             c == SkipSpaces[s, b]
             d == SkipSpaces[s, c + 1]
             e == SkipDigits[s, d]
             grp == c <= Len(s) /\ s[c] \in WeekSeps /\ e > d
             f == SkipSpaces[s, IF grp THEN e ELSE b]
         IN  IF b > a /\ f <= Len(s) /\ s[f] = CH_zhou
             THEN [start |-> i, stop |-> f + 1, g1 |-> SubSeq(s, a, b - 1),
                   g2 |-> IF grp THEN SubSeq(s, d, e - 1) ELSE <<>>]
             ELSE NoMatch

WeekSearchFrom[s \in Str, i \in Int] ==
    IF i > Len(s) THEN NoMatch
    ELSE LET m == WeekMatchAt(s, i)
         IN  IF Matched(m) THEN m ELSE WeekSearchFrom[s, i + 1]

WEEK_PATTERN_search(s) == WeekSearchFrom[s, 1]

\* (周[一二三四五六日天]|星期[一二三四五六日天])
DayMatchAt(s, i) ==
    IF i + 1 <= Len(s) /\ s[i] = CH_zhou /\ s[i + 1] \in DayChars
    THEN [start |-> i, stop |-> i + 2, g1 |-> SubSeq(s, i, i + 1), g2 |-> <<>>]
    ELSE IF /\ i + 2 <= Len(s)
            /\ s[i] = CH_star /\ s[i + 1] = CH_qi /\ s[i + 2] \in DayChars
    THEN [start |-> i, stop |-> i + 3, g1 |-> SubSeq(s, i, i + 2), g2 |-> <<>>]
    ELSE NoMatch

DaySearchFrom[s \in Str, i \in Int] ==
    IF i > Len(s) THEN NoMatch
    ELSE LET m == DayMatchAt(s, i)
         IN  IF Matched(m) THEN m ELSE DaySearchFrom[s, i + 1]

DAY_PATTERN_search(s) == DaySearchFrom[s, 1]

\* \d{1,2}:\d{2} at position i: the position after it, 0 when it does not match
ClockEnd(s, i) ==
    IF /\ i + 4 <= Len(s)
       /\ IsDigit(s[i]) /\ IsDigit(s[i + 1]) /\ s[i + 2] = CH_colon
       /\ IsDigit(s[i + 3]) /\ IsDigit(s[i + 4])
    THEN i + 5
    ELSE IF /\ i + 3 <= Len(s)
            /\ IsDigit(s[i]) /\ s[i + 1] = CH_colon
            /\ IsDigit(s[i + 2]) /\ IsDigit(s[i + 3])
    THEN i + 4
    ELSE 0

\* (\d{1,2}:\d{2})\s*[-–~至到]\s*(\d{1,2}:\d{2})
TimeMatchAt(s, i) ==
    LET e1 == ClockEnd(s, i)
        a  == SkipSpaces[s, e1]
        b  == SkipSpaces[s, a + 1]
        e2 == ClockEnd(s, b)
    IN  IF e1 # 0 /\ a <= Len(s) /\ s[a] \in TimeSeps /\ e2 # 0
        THEN [start |-> i, stop |-> e2, g1 |-> SubSeq(s, i, e1 - 1),
              g2 |-> SubSeq(s, b, e2 - 1)]
        ELSE NoMatch

TimeSearchFrom[s \in Str, i \in Int] ==
    IF i > Len(s) THEN NoMatch
    ELSE LET m == TimeMatchAt(s, i)
         IN  IF Matched(m) THEN m ELSE TimeSearchFrom[s, i + 1]

TIME_PATTERN_search(s) == TimeSearchFrom[s, 1]

(***************************************************************************)
(* extract_text_from_pdf.  A document is [valid, pages]: pdfplumber.open   *)
(* raises on a document that is not valid; a page's text is a string,      *)
(* <<>> for a page with no extractable text (extract_text() or "").        *)
(***************************************************************************)
Raises(doc) == ~doc.valid

extract_text_from_pdf(doc) == Join[doc.pages, <<CH_nl>>]

(***************************************************************************)
(* detect_student_name                                                     *)
(***************************************************************************)
Colons == {CH_colon, CH_fcolon}

\* the literal "Student"
STUDENT == <<83, 116, 117, 100, 101, 110, 116>>

\* label[:：]\s*(?P<name>\S+) for a two-character label
LabelMatchAt(s, i, label) ==
    IF /\ i + 2 <= Len(s)
       /\ s[i] = label[1] /\ s[i + 1] = label[2] /\ s[i + 2] \in Colons
    THEN LET a == SkipSpaces[s, i + 3]
             b == SkipNonSpaces[s, a]
         IN  IF b > a
             THEN [start |-> i, stop |-> b, g1 |-> SubSeq(s, a, b - 1),
                   g2 |-> <<>>]
             ELSE NoMatch
    ELSE NoMatch

\* Student[:：]?\s*(?P<name>[A-Za-z\s]+): when no name character follows the
\* greedy \s*, the engine backtracks and \s* gives its last space to the name
StudentMatchAt(s, i) ==
    IF i + 6 <= Len(s) /\ SubSeq(s, i, i + 6) = STUDENT
    THEN LET j == i + 7
             k == IF j <= Len(s) /\ s[j] \in Colons THEN j + 1 ELSE j
             a == SkipSpaces[s, k]
             b == SkipLatinSpaces[s, a]
         IN  IF b > a
             THEN [start |-> i, stop |-> b, g1 |-> SubSeq(s, a, b - 1),
                   g2 |-> <<>>]
             ELSE IF a > k
             THEN [start |-> i, stop |-> a, g1 |-> SubSeq(s, a - 1, a - 1),
                   g2 |-> <<>>]
             ELSE NoMatch
    ELSE NoMatch

NamePatternAt(p, s, i) ==
    CASE p = 1 -> LabelMatchAt(s, i, <<CH_xue, CH_sheng>>)
      [] p = 2 -> LabelMatchAt(s, i, <<CH_xing, CH_ming>>)
      [] p = 3 -> StudentMatchAt(s, i)

NameSearchFrom[p \in Int, s \in Str, i \in Int] ==
    IF i > Len(s) THEN NoMatch
    ELSE LET m == NamePatternAt(p, s, i)
         IN  IF Matched(m) THEN m ELSE NameSearchFrom[p, s, i + 1]

\* NAME_PATTERNS[p].search(s), p = 1, 2, 3 in the list's order
NAME_PATTERNS_search(p, s) == NameSearchFrom[p, s, 1]

DetectFrom[p \in Int, t \in Str, fallback \in Str] ==
    IF p > 3 THEN fallback
    ELSE LET Try(m) == IF Matched(m) THEN Strip[m.g1]
                       ELSE DetectFrom[p + 1, t, fallback]
         IN  Try(NAME_PATTERNS_search(p, t))

\* a mutant of detect_student_name: the generic "Student" label tried first
DetectFromWesternFirst[p \in Int, t \in Str, fallback \in Str] ==
    IF p < 1 THEN fallback
    ELSE LET Try(m) == IF Matched(m) THEN Strip[m.g1]
                       ELSE DetectFromWesternFirst[p - 1, t, fallback]
         IN  Try(NAME_PATTERNS_search(p, t))

detect_student_name_WesternFirst(t, fallback) ==
    DetectFromWesternFirst[3, t, fallback]

detect_student_name(t, fallback) == DetectFrom[1, t, fallback]

(***************************************************************************)
(* parse_course_lines, parse_course_entry, parse_pdf_schedule              *)
(***************************************************************************)
\* the test of parse_course_lines on one raw line: blank lines are skipped,
\* the three patterns are searched in the stripped line
IsCourseLine[raw_line \in Str] ==
    LET l == Strip[raw_line]
    IN  /\ l # <<>>
        /\ Matched(WEEK_PATTERN_search(l))
        /\ Matched(DAY_PATTERN_search(l))
        /\ Matched(TIME_PATTERN_search(l))

\* the (raw_line, line) pairs parse_course_lines yields, in order
parse_course_lines_of[raw_lines \in StrList] ==
    IF raw_lines = <<>> THEN <<>>
    ELSE (IF IsCourseLine[raw_lines[1]]
          THEN << <<raw_lines[1], Strip[raw_lines[1]]>> >> ELSE <<>>)
         \o parse_course_lines_of[Tail(raw_lines)]

parse_course_lines(t) == parse_course_lines_of[SplitLines[t]]

\* a mutant of DayMapGet: the lookup knows one name of Sunday only
DayMapGet_NoTian(day_label) ==
    IF day_label \in DOMAIN DAY_MAP /\ day_label[Len(day_label)] # CH_tian
    THEN DAY_MAP[day_label] ELSE -1

\* DAY_MAP.get(day_label, None); -1 is None
DayMapGet(day_label) ==
    IF day_label \in DOMAIN DAY_MAP THEN DAY_MAP[day_label] ELSE -1

\* the local `remaining` after the tokens are removed, whitespace collapsed
Remaining[l \in Str] ==
    LET week_match == WEEK_PATTERN_search(l)
        day_match  == DAY_PATTERN_search(l)
        time_match == TIME_PATTERN_search(l)
        r1 == Replace[l, Group0(l, week_match), <<CH_sp>>]
        r2 == Replace[r1, day_match.g1, <<CH_sp>>]
        r3 == Replace[r2, Group0(l, time_match), <<CH_sp>>]
    IN  Strip[CollapseSpaces[r3]]

\* re.search(r"\d|教室|楼", token)
HasLocationMark[token \in Str] ==
    \E i \in 1..Len(token) :
        \/ IsDigit(token[i])
        \/ token[i] = CH_lou
        \/ i < Len(token) /\ token[i] = CH_jiao /\ token[i + 1] = CH_shi

\* the placeholder course name
PLACEHOLDER == <<CH_ke, CH_cheng>>

\* a mutant of SplitCourseLocation: the token count is not tested
SplitCourseLocation_NoCount(rem) ==
    IF rem = <<>> THEN [course_name |-> PLACEHOLDER, location |-> <<>>]
    ELSE LET tokens == Split[rem, CH_sp]
         IN  IF HasLocationMark[tokens[Len(tokens)]]
             THEN [course_name |->
                       Join[SubSeq(tokens, 1, Len(tokens) - 1), <<CH_sp>>],
                   location |-> tokens[Len(tokens)]]
             ELSE [course_name |-> rem, location |-> <<>>]

\* course_name and location from `remaining`
SplitCourseLocation(rem) ==
    IF rem = <<>> THEN [course_name |-> PLACEHOLDER, location |-> <<>>]
    ELSE LET tokens == Split[rem, CH_sp]
         IN  IF Len(tokens) > 1 /\ HasLocationMark[tokens[Len(tokens)]]
             THEN [course_name |->
                       Join[SubSeq(tokens, 1, Len(tokens) - 1), <<CH_sp>>],
                   location |-> tokens[Len(tokens)]]
             ELSE [course_name |-> rem, location |-> <<>>]

\* SplitCourseLocation on the value of `remaining`
CourseAndLocation[rem \in Str] == SplitCourseLocation(rem)

\* lines 117-157 of parse_course_entry, given its three matches
EntryOf(l, student, week_match, day_match, time_match) ==
    IF ~(Matched(week_match) /\ Matched(day_match) /\ Matched(time_match))
    THEN <<>>
    ELSE LET Make(week_start, weekday, cl) ==
                 IF weekday = -1 THEN <<>>
                 ELSE << [student     |-> student,
                          course_name |-> IF cl.course_name # <<>>
                                          THEN cl.course_name ELSE PLACEHOLDER,
                          location    |-> cl.location,
                          weekday     |-> weekday,
                          time_range  |-> time_match.g1 \o <<CH_hyphen>>
                                          \o time_match.g2,
                          week_start  |-> week_start,
                          week_end    |-> IF week_match.g2 # <<>>
                                          THEN ToInt[week_match.g2]
                                          ELSE week_start] >>
         IN  Make(ToInt[week_match.g1], DayMapGet(day_match.g1),
                  CourseAndLocation[Remaining[l]])

\* parse_course_entry: <<>> is None, <<e>> is the CourseEntry e
parse_course_entry[l \in Str, student \in Str] ==
    EntryOf(l, student, WEEK_PATTERN_search(l), DAY_PATTERN_search(l),
            TIME_PATTERN_search(l))

\* the loop of parse_pdf_schedule over the lines parse_course_lines yields
ParseLines[raw_lines \in StrList, student \in Str] ==
    IF raw_lines = <<>> THEN <<>>
    ELSE (IF IsCourseLine[raw_lines[1]]
          THEN parse_course_entry[Strip[raw_lines[1]], student] ELSE <<>>)
         \o ParseLines[Tail(raw_lines), student]

\* parse_pdf_schedule on a document that can be opened
parse_pdf_schedule(doc, fallback) ==
    LET t == extract_text_from_pdf(doc)
    IN  ParseLines[SplitLines[t], detect_student_name(t, fallback)]

(***************************************************************************)
(* compute_week_number.  A date is its proleptic ordinal, so that          *)
(* (reference_date - semester_start).days is a difference of integers.     *)
(***************************************************************************)
\* a mutant of compute_week_number: the negative difference is not clamped
compute_week_number_NoClamp(start, ref) == (ref - start) \div 7 + 1

compute_week_number(start, ref) ==
    LET delta_days == ref - start
    IN  IF delta_days < 0 THEN 1 ELSE delta_days \div 7 + 1

(***************************************************************************)
(* build_week_dataframe                                                    *)
(***************************************************************************)
\* the empty cell
NO_COURSE == <<CH_none>>

\* f"{entry.student}：{entry.course_name}" and "（{entry.location}）" when set
Description(e) ==
    e.student \o <<CH_fcolon>> \o e.course_name
    \o (IF e.location # <<>>
        THEN <<CH_lparen>> \o e.location \o <<CH_rparen>> ELSE <<>>)

\* a mutant of MergeCell: the cell keeps its last entry only
MergeCell_Overwrite(existing, description) == description

\* the new text of a cell that holds `existing`
MergeCell(existing, description) ==
    IF existing # <<>> /\ existing # NO_COURSE
    THEN existing \o <<CH_nl>> \o description
    ELSE description

\* [e for e in entries if e.includes_week(week)]
FilterWeek(es, w) ==
    LET Keep(e) == includes_week(e, w) IN SelectSeq(es, Keep)

(***************************************************************************)
(* The page script's batch loop and student filter                         *)
(***************************************************************************)
\* file.name.rsplit(".", 1)[0]
LastDot[name \in Str, i \in Int] ==
    IF i >= 1 /\ name[i] # CH_dot THEN LastDot[name, i - 1] ELSE i

FallbackName(name) ==
    LET k == LastDot[name, Len(name)]
    IN  IF k = 0 THEN name ELSE SubSeq(name, 1, k - 1)

\* a mutant of NameOfFile: the file's name is always the one listed
NameOfFile_AlwaysFallback(es, fallback) == fallback

\* the name the loop appends to student_names for a parsed file
NameOfFile(es, fallback) ==
    IF es # <<>> THEN es[1].student ELSE fallback

\* [entry for entry in all_entries if entry.student in selected_students]
FilterStudents(es, selected) ==
    LET Keep(e) == e.student \in SeqToSet(selected) IN SelectSeq(es, Keep)

(***************************************************************************)
(* Inputs.  The bounds of the model, and the texts, lines, documents and   *)
(* files the behaviours start from.                                        *)
(***************************************************************************)
MaxWeek == 3         \* week numbers written in lines: 0..MaxWeek
MaxLines == 2        \* lines of a multi-line text
MaxLabels == 2       \* label segments of a name text
MaxEntries == 2      \* entries given to build_week_dataframe
MaxShownWeek == 2    \* weeks shown: 1..MaxShownWeek
MaxDay == 20         \* dates: ordinals 0..MaxDay
MaxFiles == 2        \* uploaded files

SeqsUpTo(S, n) == UNION {[1..k -> S] : k \in 0..n}

\* str(n) for n >= 0
RECURSIVE DecStr(_)
DecStr(n) ==
    IF n < 10 THEN <<CH_zero + n>>
    ELSE DecStr(n \div 10) \o <<CH_zero + (n % 10)>>

\* '数学'
T_math == <<25968, 23398>>
\* '数学 A301'
T_math_A301 == <<25968, 23398, 32, 65, 51, 48, 49>>
\* '数学 教室'
T_math_room == <<25968, 23398, 32, 25945, 23460>>
\* '高等 数学 3楼'
T_adv_math_3f == <<39640, 31561, 32, 25968, 23398, 32, 51, 27004>>
\* '数学2'
T_math2 == <<25968, 23398, 50>>
\* '周一例会'
T_mon_meeting == <<21608, 19968, 20363, 20250>>
\* 'A301 数学'
T_A301_math == <<65, 51, 48, 49, 32, 25968, 23398>>
\* '数学 \t B2'
T_math_wide == <<25968, 23398, 32, 9, 32, 66, 50>>
\* '张三'
T_zhang == <<24352, 19977>>
\* '李四'
T_li == <<26446, 22235>>
\* 'fb'
T_fb == <<102, 98>>
\* 'abc'
T_other == <<97, 98, 99>>
\* '学生：张三'
L_xuesheng_zhang == <<23398, 29983, 65306, 24352, 19977>>
\* '学生: 李四'
L_xuesheng_li == <<23398, 29983, 58, 32, 26446, 22235>>
\* '学生:'
L_xuesheng_bare == <<23398, 29983, 58>>
\* '姓名:李四'
L_xingming_li == <<22995, 21517, 58, 26446, 22235>>
\* 'Student: Li Ming'
L_student_liming == <<83, 116, 117, 100, 101, 110, 116, 58, 32, 76, 105, 32, 77, 105, 110, 103>>
\* 'Student: '
L_student_bare == <<83, 116, 117, 100, 101, 110, 116, 58, 32>>
\* 'Student:1'
L_student_digit == <<83, 116, 117, 100, 101, 110, 116, 58, 49>>
\* 'Students Li'
L_students == <<83, 116, 117, 100, 101, 110, 116, 115, 32, 76, 105>>
\* '学生 张三'
L_xuesheng_nocolon == <<23398, 29983, 32, 24352, 19977>>
\* 'a.pdf'
N_a_pdf == <<97, 46, 112, 100, 102>>
\* 'b.v2.pdf'
N_b_v2_pdf == <<98, 46, 118, 50, 46, 112, 100, 102>>
\* 'c'
N_c == <<99>>

WeekSingle(n) == <<CH_di>> \o DecStr(n) \o <<CH_zhou>>
WeekRange(n, sep, m) ==
    <<CH_di>> \o DecStr(n) \o sep \o DecStr(m) \o <<CH_zhou>>

WeekTokens ==
    {WeekSingle(n) : n \in 0..MaxWeek}
    \cup {WeekRange(n, <<CH_hyphen>>, m) : n \in 0..MaxWeek, m \in 0..MaxWeek}
    \cup {WeekRange(1, sep, 2) :
            sep \in {<<CH_tilde>>, <<CH_zhi>>, <<CH_dao>>,
                     <<CH_sp, CH_hyphen, CH_sp>>}}
    \cup {<<CH_di, CH_sp>> \o DecStr(12) \o <<CH_sp, CH_zhou>>,
          <<CH_di>> \o <<CH_zero>> \o DecStr(3) \o <<CH_zhou>>}

\* no week token: no digits, no end digits, no leading literal
NonWeekTokens ==
    {<<CH_di, CH_zhou>>, <<CH_di>> \o DecStr(1) \o <<CH_hyphen, CH_zhou>>,
     DecStr(1) \o <<CH_zhou>>}

DayTokens == DOMAIN DAY_MAP
NonDayTokens == {<<CH_zhou>>, <<CH_star, CH_qi>>}

Clock(h, m) == h \o <<CH_colon>> \o m
T_8 == DecStr(8)
T_08 == <<CH_zero>> \o DecStr(8)
T_00 == <<CH_zero, CH_zero>>
T_50 == DecStr(50)

TimeTokens ==
    {Clock(T_8, T_00) \o sep \o Clock(DecStr(9), T_50) :
        sep \in {<<CH_hyphen>>, <<CH_endash>>, <<CH_tilde>>, <<CH_zhi>>,
                 <<CH_dao>>, <<CH_sp, CH_hyphen, CH_sp>>}}
    \cup {Clock(T_08, T_00) \o <<CH_hyphen>> \o Clock(DecStr(10), T_50),
          Clock(DecStr(14), T_00) \o <<CH_tilde>> \o Clock(DecStr(15), T_50)}

\* no time token: one clock time only, a one-digit minute
NonTimeTokens ==
    {Clock(T_8, T_00),
     Clock(T_8, <<CH_zero>>) \o <<CH_hyphen>> \o Clock(DecStr(9), T_00)}

Residues ==
    {<<>>, T_math, T_math_A301, T_math_room, T_adv_math_3f, T_math2,
     T_mon_meeting, T_A301_math, T_math_wide}

W0 == WeekRange(1, <<CH_hyphen>>, 2)
D0 == <<CH_zhou, CH_yi>>
T0 == Clock(T_8, T_00) \o <<CH_hyphen>> \o Clock(DecStr(9), T_50)

MkLine(parts) == Join[parts, <<CH_sp>>]

\* one-line texts: each token varied against a fixed rest, the token orders,
\* tokens written without spaces between them, a weekday literal that starts
\* inside the week token, blank lines
CourseLinePool ==
    {MkLine(<<w, D0, T0, T_math_A301>>) : w \in WeekTokens \cup NonWeekTokens}
    \cup {MkLine(<<W0, d, T0, T_math_A301>>) : d \in DayTokens \cup NonDayTokens}
    \cup {MkLine(<<W0, D0, t, r>>) :
            t \in TimeTokens \cup NonTimeTokens, r \in Residues}
    \cup {MkLine(<<T_math_A301, D0, W0, T0>>), MkLine(<<T0, T_math, W0, D0>>),
          W0 \o D0 \o T0 \o T_math,
          MkLine(<<WeekSingle(3) \o <<CH_yi>>, T0, T_math>>),
          MkLine(<<W0, D0, T0, T_math, T0>>),
          <<>>, <<CH_sp, CH_tab>>}

\* the lines of multi-line texts
TextLinePool ==
    {MkLine(<<W0, D0, T0, T_math_A301>>),
     MkLine(<<WeekSingle(3), <<CH_star, CH_qi, CH_tian>>, T0, T_math>>),
     MkLine(<<W0, D0, T_math>>),
     MkLine(<<D0, T0, T_math>>),
     <<CH_sp>>,
     L_xuesheng_zhang}

MultiLineTexts ==
    {Join[q, <<CH_nl>>] : q \in SeqsUpTo(TextLinePool, MaxLines) \ {<<>>}}

Doc(pages) == [valid |-> TRUE, pages |-> pages]
InvalidDoc == [valid |-> FALSE, pages |-> <<>>]

\* documents: one page of text, two pages around a page without text, and a
\* document pdfplumber cannot open
ParseDocs ==
    {Doc(<<t>>) : t \in CourseLinePool \cup MultiLineTexts}
    \cup {Doc(<<L_xingming_li, <<>>, MkLine(<<W0, D0, T0>>) \o <<CH_nl>>>>),
          InvalidDoc}

\* name texts: label segments joined by newlines
NameSegments ==
    {L_xuesheng_zhang, L_xuesheng_li, L_xuesheng_bare, L_xingming_li,
     L_student_liming, L_student_bare, L_student_digit, L_students,
     L_xuesheng_nocolon, T_other}

NameTexts ==
    {Join[q, <<CH_nl>>] : q \in SeqsUpTo(NameSegments, MaxLabels)}
    \cup {L_xingming_li \o <<CH_sp>> \o L_xuesheng_zhang,
          L_student_liming \o <<CH_nl>> \o MkLine(<<W0, D0, T0, T_math>>)}

Fallbacks == {T_fb, T_zhang}

(***************************************************************************)
(* State machine.  A behaviour runs one part of the program (mode); the    *)
(* variables of the other parts keep their idle values.                    *)
(***************************************************************************)
ParseIdle ==
    /\ file_bytes = InvalidDoc /\ fallback_name = <<>> /\ text = <<>>
    /\ student_name = <<>> /\ lines = <<>> /\ line = <<>>
    /\ remaining = <<>> /\ entry = <<>>

WeekIdle == semester_start = 0 /\ reference_date = 0 /\ current_week = 0

GridIdle ==
    /\ week = 0 /\ filtered = <<>> /\ time_slots = <<>>
    /\ table = <<>> /\ df_rows = <<>>

BatchIdle ==
    /\ uploaded_files = <<>> /\ idx = 0 /\ all_entries = <<>>
    /\ student_names = <<>> /\ errors = <<>>
    /\ selected_students = <<>> /\ filtered_entries = <<>>

parseVars == << file_bytes, fallback_name, text, student_name, lines, line,
                remaining, entry >>
weekVars == << semester_start, reference_date, current_week >>
gridVars == << week, filtered, time_slots, table, df_rows >>
batchVars == << uploaded_files, idx, all_entries, student_names, errors,
                selected_students, filtered_entries >>

(***************************************************************************)
(* detect_student_name(text, fallback)                                     *)
(***************************************************************************)
InitName ==
    /\ mode = "name" /\ pc = "start"
    /\ text \in NameTexts /\ fallback_name \in Fallbacks
    /\ file_bytes = InvalidDoc /\ student_name = <<>> /\ lines = <<>>
    /\ line = <<>> /\ remaining = <<>> /\ entry = <<>> /\ entries = <<>>
    /\ WeekIdle /\ GridIdle /\ BatchIdle

DetectStudentName ==
    /\ mode = "name" /\ pc = "start"
    /\ student_name' = detect_student_name(text, fallback_name)
    /\ pc' = "done"
    /\ UNCHANGED << mode, file_bytes, fallback_name, text, lines, entries,
                    line, remaining, entry, weekVars, gridVars, batchVars >>

NextName == DetectStudentName

SpecName == InitName /\ [][NextName]_vars

(***************************************************************************)
(* parse_pdf_schedule(file_bytes, fallback_name)                           *)
(***************************************************************************)
InitParse ==
    /\ mode = "parse" /\ pc = "open"
    /\ file_bytes \in ParseDocs /\ fallback_name = T_fb
    /\ text = <<>> /\ student_name = <<>> /\ lines = <<>> /\ line = <<>>
    /\ remaining = <<>> /\ entry = <<>> /\ entries = <<>>
    /\ WeekIdle /\ GridIdle /\ BatchIdle

\* lines 161-164: the text is extracted, the name detected, the loop entered
Open ==
    /\ mode = "parse" /\ pc = "open" /\ ~Raises(file_bytes)
    /\ text' = extract_text_from_pdf(file_bytes)
    /\ student_name' = detect_student_name(text', fallback_name)
    /\ lines' = SplitLines[text']
    /\ entries' = <<>>
    /\ pc' = "loop"
    /\ UNCHANGED << mode, file_bytes, fallback_name, line, remaining, entry,
                    weekVars, gridVars, batchVars >>

\* line 161: pdfplumber.open raises, parse_pdf_schedule does not return
OpenRaises ==
    /\ mode = "parse" /\ pc = "open" /\ Raises(file_bytes)
    /\ pc' = "raised"
    /\ UNCHANGED << mode, parseVars, entries, weekVars, gridVars, batchVars >>

\* lines 104-109 and 165-168 for the next raw line of the text
ForLine ==
    /\ mode = "parse" /\ pc = "loop" /\ lines # <<>>
    /\ lines' = Tail(lines)
    /\ IF IsCourseLine[Head(lines)]
       THEN /\ line' = Strip[Head(lines)]
            /\ entry' = parse_course_entry[line', student_name]
            /\ remaining' = Remaining[line']
            /\ entries' = entries \o entry'
       ELSE UNCHANGED << line, entry, remaining, entries >>
    /\ UNCHANGED << mode, pc, file_bytes, fallback_name, text, student_name,
                    weekVars, gridVars, batchVars >>

\* line 169
Return ==
    /\ mode = "parse" /\ pc = "loop" /\ lines = <<>>
    /\ pc' = "done"
    /\ UNCHANGED << mode, parseVars, entries, weekVars, gridVars, batchVars >>

NextParse == Open \/ OpenRaises \/ ForLine \/ Return

SpecParse == InitParse /\ [][NextParse]_vars

(***************************************************************************)
(* Properties of the parser.  The token languages are stated here by       *)
(* their shape, independently of the matching procedure above.             *)
(***************************************************************************)
AllSpaces(s) == \A k \in 1..Len(s) : IsSpace(s[k])
AllDigits(s) == s # <<>> /\ \A k \in 1..Len(s) : IsDigit(s[k])

\* \s* [-~至到] \s* \d+ \s*  or  \s*
IsWeekEnd(r) ==
    \/ AllSpaces(r)
    \/ \E c \in 1..Len(r) :
          /\ r[c] \in {CH_hyphen, CH_tilde, CH_zhi, CH_dao}
          /\ AllSpaces(SubSeq(r, 1, c - 1))
          /\ \E d \in (c + 1)..Len(r), e \in (c + 1)..Len(r) :
                /\ d <= e
                /\ AllSpaces(SubSeq(r, c + 1, d - 1))
                /\ AllDigits(SubSeq(r, d, e))
                /\ AllSpaces(SubSeq(r, e + 1, Len(r)))

IsWeekToken(s) ==
    /\ Len(s) >= 3 /\ s[1] = CH_di /\ s[Len(s)] = CH_zhou
    /\ \E a \in 2..(Len(s) - 1), b \in 2..(Len(s) - 1) :
          /\ a <= b
          /\ AllSpaces(SubSeq(s, 2, a - 1))
          /\ AllDigits(SubSeq(s, a, b))
          /\ IsWeekEnd(SubSeq(s, b + 1, Len(s) - 1))

IsDayToken(s) ==
    \/ Len(s) = 2 /\ s[1] = CH_zhou /\ s[2] \in DayChars
    \/ Len(s) = 3 /\ s[1] = CH_star /\ s[2] = CH_qi /\ s[3] \in DayChars

IsClock(s) ==
    /\ Len(s) \in {4, 5}
    /\ \A k \in 1..Len(s) :
          IF k = Len(s) - 2 THEN s[k] = CH_colon ELSE IsDigit(s[k])

IsTimeToken(s) ==
    \E a \in {4, 5}, b \in {Len(s) - 3, Len(s) - 4} :
        /\ a < b - 1
        /\ IsClock(SubSeq(s, 1, a))
        /\ IsClock(SubSeq(s, b, Len(s)))
        /\ \E c \in (a + 1)..(b - 1) :
              /\ s[c] \in {CH_hyphen, CH_endash, CH_tilde, CH_zhi, CH_dao}
              /\ AllSpaces(SubSeq(s, a + 1, c - 1))
              /\ AllSpaces(SubSeq(s, c + 1, b - 1))

ContainsWeekToken(l) ==
    \E i \in 1..Len(l), j \in 1..Len(l) :
        i <= j /\ l[i] = CH_di /\ l[j] = CH_zhou /\ IsWeekToken(SubSeq(l, i, j))
ContainsDayToken(l) ==
    \E i \in 1..Len(l), n \in {1, 2} :
        i + n <= Len(l) /\ IsDayToken(SubSeq(l, i, i + n))
ContainsTimeToken(l) ==
    \E i \in 1..Len(l), j \in 1..Len(l) :
        i <= j /\ IsDigit(l[i]) /\ IsDigit(l[j]) /\ IsTimeToken(SubSeq(l, i, j))

\* a candidate line: not blank, and one token of each kind in it
IsCandidate(l) ==
    /\ ~AllSpaces(l)
    /\ ContainsWeekToken(l) /\ ContainsDayToken(l) /\ ContainsTimeToken(l)

CandidateLines(t) == SelectSeq(SplitLines[t], IsCandidate)

\* C2: parse_pdf_schedule returns one entry for each candidate line of the
\* text (a non-blank line holding a week-range, a weekday and a time-range
\* token), in line order, duplicates kept, and none for any other line;
\* parse_course_entry returns no None for a line parse_course_lines yields.
C2_OneEntryPerCandidateLine ==
    /\ (mode = "parse" /\ line # <<>>) => entry # <<>>
    /\ (mode = "parse" /\ pc = "done") =>
          LET cand == CandidateLines(text)
          IN  /\ Len(entries) = Len(cand)
              /\ \A k \in 1..Len(cand) :
                    <<entries[k]>> =
                        parse_course_entry[Strip[cand[k]], student_name]

\* C2 witness: a text of a candidate line and a non-blank line that lacks a
\* token has been parsed into one entry
C2_Witness ==
    /\ mode = "parse" /\ pc = "done"
    /\ Len(entries) = 1
    /\ \E q \in {SplitLines[text]} :
          Len(q) = 2 /\ ~AllSpaces(q[1]) /\ ~AllSpaces(q[2])

\* C2 witness of duplicates: two equal lines gave two equal entries
C2_WitnessDuplicates ==
    /\ mode = "parse" /\ pc = "done"
    /\ Len(entries) = 2 /\ entries[1] = entries[2]

\* C3 (as claimed): every entry parse_course_entry returns has
\* 1 <= week_start <= week_end, and week_start = week_end when the week
\* token has no end group.
C3_WeekRangeOrdered ==
    (mode = "parse" /\ entry # <<>>) =>
        /\ 1 <= entry[1].week_start
        /\ entry[1].week_start <= entry[1].week_end
        /\ WEEK_PATTERN_search(line).g2 = <<>>
              => entry[1].week_start = entry[1].week_end

\* true of the code: the fields are the integers written in the token
C3_WeekFieldsAreTheDigits ==
    (mode = "parse" /\ entry # <<>>) =>
        LET m == WEEK_PATTERN_search(line)
        IN  /\ entry[1].week_start = ToInt[m.g1]
            /\ entry[1].week_end = ToInt[IF m.g2 = <<>> THEN m.g1 ELSE m.g2]

\* position of the last space of s, 0 when s has none
LastSpaceOf(s) ==
    IF \E k \in 1..Len(s) : s[k] = CH_sp
    THEN CHOOSE k \in 1..Len(s) :
             s[k] = CH_sp /\ \A j \in (k + 1)..Len(s) : s[j] # CH_sp
    ELSE 0

\* C8: when the residue has two or more space-separated tokens and the last
\* holds a digit, "教室" or "楼", location is that token and course_name the
\* tokens before it joined by single spaces; otherwise location is empty and
\* course_name the whole residue, the placeholder when the residue is empty;
\* course_name is never empty.
C8_CourseNameAndLocation ==
    (mode = "parse" /\ entry # <<>>) =>
        LET k    == LastSpaceOf(remaining)
            last == SubSeq(remaining, k + 1, Len(remaining))
            mark == \E i \in 1..Len(last) :
                       \/ IsDigit(last[i])
                       \/ last[i] = CH_lou
                       \/ i < Len(last) /\ SubSeq(last, i, i + 1)
                                             = <<CH_jiao, CH_shi>>
        IN  /\ entry[1].course_name # <<>>
            /\ IF k > 0 /\ mark
               THEN /\ entry[1].location = last
                    /\ entry[1].course_name = SubSeq(remaining, 1, k - 1)
               ELSE /\ entry[1].location = <<>>
                    /\ entry[1].course_name =
                          (IF remaining = <<>> THEN PLACEHOLDER ELSE remaining)

\* C8 witness: a residue of three tokens, the last one a location
C8_Witness ==
    /\ mode = "parse" /\ entry # <<>>
    /\ remaining = T_adv_math_3f
    /\ entry[1].location # <<>> /\ entry[1].course_name # remaining

\* the line with the spans of the three matches each replaced by one space
ReplaceSpans(l, ms) ==
    LET marked == [i \in 1..Len(l) |->
                     IF \E m \in ms : i = m.start THEN CH_sp
                     ELSE IF \E m \in ms : m.start < i /\ i < m.stop THEN 0
                     ELSE l[i]]
        Kept(c) == c # 0
    IN  SelectSeq(marked, Kept)

\* C9 (as claimed): the residue is the line with exactly the three matched
\* substrings replaced by a space each, whitespace collapsed and trimmed;
\* every other part of the line is kept (stated for lines whose three
\* matches do not overlap).
C9_ResidueKeepsTheRest ==
    (mode = "parse" /\ entry # <<>>) =>
        LET wm == WEEK_PATTERN_search(line)
            dm == DAY_PATTERN_search(line)
            tm == TIME_PATTERN_search(line)
        IN  (dm.stop <= wm.start \/ wm.stop <= dm.start) =>
               remaining = Strip[CollapseSpaces[ReplaceSpans(line, {wm, dm, tm})]]

\* detect_student_name, by the shape of the labelled names
LabelAt(t, i, label) ==
    /\ i + 2 <= Len(t)
    /\ SubSeq(t, i, i + 1) = label /\ t[i + 2] \in {CH_colon, CH_fcolon}
    /\ \E a \in (i + 3)..Len(t) : ~IsSpace(t[a])

\* the name after the label at i: the first run of non-whitespace
LabelName(t, i) ==
    LET a == CHOOSE a \in (i + 3)..Len(t) :
                 ~IsSpace(t[a]) /\ \A k \in (i + 3)..(a - 1) : IsSpace(t[k])
        b == CHOOSE b \in a..Len(t) :
                 /\ \A k \in a..b : ~IsSpace(t[k])
                 /\ b = Len(t) \/ IsSpace(t[b + 1])
    IN  SubSeq(t, a, b)

AfterStudent(t, i) ==
    IF i + 7 <= Len(t) /\ t[i + 7] \in {CH_colon, CH_fcolon}
    THEN i + 8 ELSE i + 7

StudentAt(t, i) ==
    /\ i + 6 <= Len(t) /\ SubSeq(t, i, i + 6) = STUDENT
    /\ AfterStudent(t, i) <= Len(t)
    /\ IsLatin(t[AfterStudent(t, i)]) \/ IsSpace(t[AfterStudent(t, i)])

\* the trimmed name after "Student" at i: the run of letters and whitespace
StudentName(t, i) ==
    LET a == AfterStudent(t, i)
        b == CHOOSE b \in a..Len(t) :
                 /\ \A k \in a..b : IsLatin(t[k]) \/ IsSpace(t[k])
                 /\ b = Len(t) \/ ~(IsLatin(t[b + 1]) \/ IsSpace(t[b + 1]))
    IN  Strip[SubSeq(t, a, b)]

First(S) == CHOOSE i \in S : \A j \in S : i <= j

XueshengAt(t) == {i \in 1..Len(t) : LabelAt(t, i, <<CH_xue, CH_sheng>>)}
XingmingAt(t) == {i \in 1..Len(t) : LabelAt(t, i, <<CH_xing, CH_ming>>)}
StudentLabelAt(t) == {i \in 1..Len(t) : StudentAt(t, i)}

\* C7: detect_student_name returns the trimmed capture of the first of the
\* patterns "学生", "姓名", "Student" (in this order) that matches anywhere in
\* the text, wherever the labels of lower priority are, and the fallback
\* unchanged when none of the three matches.
C7_FirstPatternInPriorityOrder ==
    (mode = "name" /\ pc = "done") =>
        student_name =
            IF XueshengAt(text) # {}
            THEN LabelName(text, First(XueshengAt(text)))
            ELSE IF XingmingAt(text) # {}
            THEN LabelName(text, First(XingmingAt(text)))
            ELSE IF StudentLabelAt(text) # {}
            THEN StudentName(text, First(StudentLabelAt(text)))
            ELSE fallback_name

\* C7 witness: "Student: Li Ming" stands before "学生：张三" and 张三 is returned
C7_Witness ==
    /\ mode = "name" /\ pc = "done"
    /\ XueshengAt(text) # {} /\ StudentLabelAt(text) # {}
    /\ First(StudentLabelAt(text)) < First(XueshengAt(text))
    /\ student_name = T_zhang /\ fallback_name # T_zhang

(***************************************************************************)
(* compute_week_number in the page script (lines 247-259, automatic mode). *)
(* Streamlit runs the script again when an input changes.                  *)
(***************************************************************************)
InitWeek ==
    /\ mode = "week" /\ pc = "input"
    /\ semester_start \in 0..MaxDay /\ reference_date \in 0..MaxDay
    /\ current_week = 0
    /\ ParseIdle /\ entries = <<>> /\ GridIdle /\ BatchIdle

ComputeWeek ==
    /\ mode = "week" /\ pc = "input"
    /\ current_week' = compute_week_number(semester_start, reference_date)
    /\ pc' = "shown"
    /\ UNCHANGED << mode, parseVars, entries, semester_start, reference_date,
                    gridVars, batchVars >>

ChangeReferenceDate ==
    /\ mode = "week" /\ pc = "shown"
    /\ \E d \in 0..MaxDay :
          /\ d # reference_date
          /\ reference_date' = d
          /\ current_week' = compute_week_number(semester_start, d)
    /\ UNCHANGED << mode, pc, parseVars, entries, semester_start, gridVars,
                    batchVars >>

NextWeek == ComputeWeek \/ ChangeReferenceDate

SpecWeek == InitWeek /\ [][NextWeek]_vars

\* C6: compute_week_number returns max(0, d) // 7 + 1 for the d days from
\* semester_start to reference_date; the result is at least 1, is 1 when the
\* reference date precedes the semester start, and does not decrease when d
\* does not.
C6_WeekNumber ==
    /\ [](mode = "week" /\ pc = "shown" =>
            LET d == reference_date - semester_start
            IN  /\ current_week = (IF d > 0 THEN d ELSE 0) \div 7 + 1
                /\ current_week >= 1
                /\ d < 0 => current_week = 1)
    /\ [][(mode = "week" /\ pc = "shown" /\ pc' = "shown"
           /\ reference_date' - semester_start'
                >= reference_date - semester_start)
          => current_week' >= current_week]_vars

\* C6 witness: a reference date before the semester start is shown as week 1
C6_Witness ==
    /\ mode = "week" /\ pc = "shown"
    /\ reference_date < semester_start /\ current_week = 1

\* C6 witness: 14 days into the semester is week 3
C6_WitnessThirdWeek ==
    /\ mode = "week" /\ pc = "shown"
    /\ reference_date - semester_start = 14 /\ current_week = 3

(***************************************************************************)
(* build_week_dataframe(entries, week)                                     *)
(***************************************************************************)
T_9_10 == Clock(DecStr(9), T_00) \o <<CH_hyphen>> \o Clock(DecStr(10), T_00)
T_10_11 == Clock(DecStr(10), T_00) \o <<CH_hyphen>> \o Clock(DecStr(11), T_00)
T_09_10 ==
    Clock(<<CH_zero>> \o DecStr(9), T_00) \o <<CH_hyphen>>
    \o Clock(DecStr(10), T_00)

GridLinePool ==
    {MkLine(<<WeekRange(1, <<CH_hyphen>>, 2), D0, T_9_10, T_math_A301>>),
     MkLine(<<WeekSingle(1), D0, T_10_11, T_mon_meeting>>),
     MkLine(<<WeekSingle(2), <<CH_zhou, CH_er>>, T_9_10, T_math>>),
     MkLine(<<WeekRange(1, <<CH_hyphen>>, 2), D0, T_09_10, T_math>>),
     MkLine(<<WeekSingle(3), <<CH_zhou, CH_ri>>, T0, T_math_room>>),
     MkLine(<<WeekRange(1, <<CH_tilde>>, 3), <<CH_star, CH_qi, CH_er>>,
              Clock(DecStr(14), T_00) \o <<CH_zhi>> \o Clock(DecStr(15), T_50),
              T_math>>)}

\* the entries parse_course_entry makes of these lines for two students
GridEntryPool ==
    UNION {SeqToSet(parse_course_entry[l, st]) :
             l \in GridLinePool, st \in {T_zhang, T_li}}

InitGrid ==
    /\ mode = "grid" /\ pc = "start"
    /\ entries \in SeqsUpTo(GridEntryPool, MaxEntries)
    /\ week \in 1..MaxShownWeek
    /\ filtered = <<>> /\ time_slots = <<>> /\ table = <<>> /\ df_rows = <<>>
    /\ ParseIdle /\ WeekIdle /\ BatchIdle

\* lines 185-193
FilterAndInitTable ==
    /\ mode = "grid" /\ pc = "start"
    /\ filtered' = FilterWeek(entries, week)
    /\ IF filtered' = <<>>
       THEN /\ df_rows' = <<>>
            /\ pc' = "done"
            /\ UNCHANGED << time_slots, table >>
       ELSE /\ time_slots' =
                  SortedStrings[{filtered'[k].time_range :
                                    k \in 1..Len(filtered')}]
            /\ table' = [slot \in SeqToSet(time_slots') |->
                           [day \in SeqToSet(DAY_NAMES) |-> NO_COURSE]]
            /\ pc' = "fill"
            /\ UNCHANGED df_rows
    /\ UNCHANGED << mode, parseVars, entries, weekVars, week, batchVars >>

\* lines 195-205 for the next entry of `filtered`
PlaceEntry ==
    /\ mode = "grid" /\ pc = "fill" /\ filtered # <<>>
    /\ LET e         == Head(filtered)
           day_label == DAY_NAMES[e.weekday + 1]
           existing  == table[e.time_range][day_label]
       IN  table' = [table EXCEPT ![e.time_range][day_label] =
                        MergeCell(existing, Description(e))]
    /\ filtered' = Tail(filtered)
    /\ UNCHANGED << mode, pc, parseVars, entries, weekVars, week, time_slots,
                    df_rows, batchVars >>

\* lines 207-213
BuildRows ==
    /\ mode = "grid" /\ pc = "fill" /\ filtered = <<>>
    /\ df_rows' = [i \in 1..Len(time_slots) |->
                     [slot |-> time_slots[i], cells |-> table[time_slots[i]]]]
    /\ pc' = "done"
    /\ UNCHANGED << mode, parseVars, entries, weekVars, week, filtered,
                    time_slots, table, batchVars >>

NextGrid == FilterAndInitTable \/ PlaceEntry \/ BuildRows

SpecGrid == InitGrid /\ [][NextGrid]_vars

\* the descriptions of a sequence of entries
RECURSIVE Descriptions(_)
Descriptions(es) ==
    IF es = <<>> THEN <<>>
    ELSE <<Description(Head(es))>> \o Descriptions(Tail(es))

InWeek(e, w) == e.week_start <= w /\ w <= e.week_end

\* C4: the cell at (time-range row, weekday column) is the newline-joined
\* list, in input order, of the descriptions of exactly the entries whose
\* week range contains the week and whose weekday and time range are the
\* cell's; it is the placeholder "无" iff there is no such entry; when no
\* entry includes the week the grid has no rows.
C4_CellsJoinMatchingEntries ==
    (mode = "grid" /\ pc = "done") =>
        /\ (\A k \in 1..Len(entries) : ~InWeek(entries[k], week))
              => df_rows = <<>>
        /\ \A r \in 1..Len(df_rows), d \in 0..6 :
              LET Here(e) == /\ InWeek(e, week)
                             /\ e.weekday = d
                             /\ e.time_range = df_rows[r].slot
                  here    == SelectSeq(entries, Here)
                  cell    == df_rows[r].cells[DAY_NAMES[d + 1]]
              IN  /\ cell = IF here = <<>> THEN NO_COURSE
                            ELSE Join[Descriptions(here), <<CH_nl>>]
                  /\ cell = NO_COURSE <=> here = <<>>

\* C4 witness: a cell holds two entries, another cell of the row none
C4_Witness ==
    /\ mode = "grid" /\ pc = "done" /\ Len(df_rows) = 1
    /\ \E d1 \in 1..7, d2 \in 1..7 :
          /\ df_rows[1].cells[DAY_NAMES[d1]] = NO_COURSE
          /\ \E k \in 1..Len(df_rows[1].cells[DAY_NAMES[d2]]) :
                df_rows[1].cells[DAY_NAMES[d2]][k] = CH_nl

\* minutes since midnight of "H:MM" or "HH:MM"
ClockMinutes(c) ==
    60 * ToInt[SubSeq(c, 1, Len(c) - 3)] + ToInt[SubSeq(c, Len(c) - 1, Len(c))]

\* the start and the end of a time range, in minutes
StartOf(tr) == ClockMinutes(Split[tr, CH_hyphen][1])
EndOf(tr) == ClockMinutes(Split[tr, CH_hyphen][2])

NotLater(a, b) ==
    StartOf(a) < StartOf(b) \/ (StartOf(a) = StartOf(b) /\ EndOf(a) <= EndOf(b))

\* C5 (as claimed): the rows are the distinct time ranges of the entries of
\* the week, each once, and their order is the chronological order.
C5_RowsDistinctAndChronological ==
    (mode = "grid" /\ pc = "done") =>
        /\ {df_rows[r].slot : r \in 1..Len(df_rows)}
              = {entries[k].time_range :
                   k \in {j \in 1..Len(entries) : InWeek(entries[j], week)}}
        /\ \A r1 \in 1..Len(df_rows), r2 \in 1..Len(df_rows) :
              r1 < r2 => /\ df_rows[r1].slot # df_rows[r2].slot
                         /\ NotLater(df_rows[r1].slot, df_rows[r2].slot)

(***************************************************************************)
(* The page script: the batch loop over the uploaded files (lines 262-282) *)
(* and the student filter (lines 284-306).                                 *)
(***************************************************************************)
L_course_a == MkLine(<<W0, D0, T0, T_math_A301>>)
L_course_b == MkLine(<<WeekSingle(3), <<CH_zhou, CH_er>>, T_9_10, T_math>>)

\* documents: a labelled timetable, an unlabelled one, a text without course
\* lines, a labelled timetable of two lines, a file that cannot be opened
D_labelled == Doc(<<L_xuesheng_zhang \o <<CH_nl>> \o L_course_a>>)
D_unlabelled == Doc(<<L_course_a>>)
D_no_course == Doc(<<T_other>>)
D_two_lines ==
    Doc(<<L_xuesheng_li \o <<CH_nl>> \o L_course_a \o <<CH_nl>> \o L_course_b>>)

BatchDocs == {D_labelled, D_unlabelled, D_no_course, D_two_lines, InvalidDoc}

\* files: every document under the name a.pdf; the documents that take the
\* file's name, and the one that fails, under a name with two dots; an
\* unlabelled timetable under a name without a dot
FilePool ==
    {[name |-> N_a_pdf, doc |-> d] : d \in BatchDocs}
    \cup {[name |-> N_b_v2_pdf, doc |-> d] :
            d \in {D_unlabelled, D_no_course, InvalidDoc}}
    \cup {[name |-> N_c, doc |-> D_unlabelled]}

InitBatch ==
    /\ mode = "batch" /\ pc = "loop"
    /\ uploaded_files \in SeqsUpTo(FilePool, MaxFiles)
    /\ idx = 0 /\ all_entries = <<>> /\ student_names = <<>> /\ errors = <<>>
    /\ selected_students = <<>> /\ filtered_entries = <<>>
    /\ ParseIdle /\ entries = <<>> /\ WeekIdle /\ GridIdle

\* lines 268-271, 276-280: the next file is parsed
FileParsed ==
    /\ mode = "batch" /\ pc = "loop" /\ idx < Len(uploaded_files)
    /\ LET file == uploaded_files[idx + 1]
           fb   == FallbackName(file.name)
       IN  /\ ~Raises(file.doc)
           /\ LET Extend(es) ==
                      /\ all_entries' = all_entries \o es
                      /\ student_names' =
                            Append(student_names, NameOfFile(es, fb))
              IN  Extend(parse_pdf_schedule(file.doc, fb))
    /\ idx' = idx + 1
    /\ UNCHANGED << mode, pc, parseVars, entries, weekVars, gridVars,
                    uploaded_files, errors, selected_students,
                    filtered_entries >>

\* a mutant of FileFailed: the loop ends at the file that fails
FileFailed_Break ==
    /\ mode = "batch" /\ pc = "loop" /\ idx < Len(uploaded_files)
    /\ Raises(uploaded_files[idx + 1].doc)
    /\ errors' = Append(errors, uploaded_files[idx + 1].name)
    /\ idx' = Len(uploaded_files)
    /\ UNCHANGED << mode, pc, parseVars, entries, weekVars, gridVars,
                    uploaded_files, all_entries, student_names,
                    selected_students, filtered_entries >>

\* lines 268-274: parse_pdf_schedule raises, the file is reported and skipped
FileFailed ==
    /\ mode = "batch" /\ pc = "loop" /\ idx < Len(uploaded_files)
    /\ Raises(uploaded_files[idx + 1].doc)
    /\ errors' = Append(errors, uploaded_files[idx + 1].name)
    /\ idx' = idx + 1
    /\ UNCHANGED << mode, pc, parseVars, entries, weekVars, gridVars,
                    uploaded_files, all_entries, student_names,
                    selected_students, filtered_entries >>

\* line 282, after the last file
EndLoop ==
    /\ mode = "batch" /\ pc = "loop"
    /\ uploaded_files # <<>> /\ idx = Len(uploaded_files)
    /\ student_names' = SortedStrings[SeqToSet(student_names)]
    /\ pc' = "filter"
    /\ UNCHANGED << mode, parseVars, entries, weekVars, gridVars,
                    uploaded_files, idx, all_entries, errors,
                    selected_students, filtered_entries >>

\* lines 265, 286-288: nothing uploaded
NoFiles ==
    /\ mode = "batch" /\ pc = "loop" /\ uploaded_files = <<>>
    /\ pc' = "stopped"
    /\ UNCHANGED << mode, parseVars, entries, weekVars, gridVars, batchVars >>

\* lines 290-292: nothing parsed
NoEntries ==
    /\ mode = "batch" /\ pc = "filter" /\ all_entries = <<>>
    /\ pc' = "stopped"
    /\ UNCHANGED << mode, parseVars, entries, weekVars, gridVars, batchVars >>

\* lines 294-306: the multiselect's value (its default is every name) and
\* the filter
SelectStudents ==
    /\ mode = "batch" /\ pc = "filter" /\ all_entries # <<>>
    /\ \E chosen \in SUBSET SeqToSet(student_names) :
          LET Chosen(n) == n \in chosen
          IN  /\ selected_students' = SelectSeq(student_names, Chosen)
              /\ IF selected_students' = <<>>
                 THEN pc' = "stopped" /\ UNCHANGED filtered_entries
                 ELSE /\ filtered_entries' =
                            FilterStudents(all_entries, selected_students')
                      /\ pc' = "shown"
    /\ UNCHANGED << mode, parseVars, entries, weekVars, gridVars,
                    uploaded_files, idx, all_entries, student_names, errors >>

NextBatch ==
    FileParsed \/ FileFailed \/ EndLoop \/ NoFiles \/ NoEntries \/ SelectStudents

SpecBatch == InitBatch /\ [][NextBatch]_vars

\* the entry lists of the files that can be opened, concatenated in order
RECURSIVE Aggregate(_)
Aggregate(files) ==
    IF files = <<>> THEN <<>>
    ELSE (IF files[1].doc.valid
          THEN parse_pdf_schedule(files[1].doc, FallbackName(files[1].name))
          ELSE <<>>)
         \o Aggregate(Tail(files))

\* the names of the files that cannot be opened, in order
RECURSIVE Unopened(_)
Unopened(files) ==
    IF files = <<>> THEN <<>>
    ELSE (IF files[1].doc.valid THEN <<>> ELSE <<files[1].name>>)
         \o Unopened(Tail(files))

\* C1: a file whose parse raises is reported and left out of the aggregate,
\* the loop goes on to every remaining file, and after the loop all_entries
\* is the concatenation, in upload order, of the entry lists of the files
\* that did not fail.
C1_FailuresSkippedRestAggregated ==
    mode = "batch" =>
        /\ all_entries = Aggregate(SubSeq(uploaded_files, 1, idx))
        /\ errors = Unopened(SubSeq(uploaded_files, 1, idx))
        /\ pc # "loop" => idx = Len(uploaded_files)

\* C1 witness: the first file failed and a later file's entries are there
C1_Witness ==
    /\ mode = "batch" /\ pc = "filter"
    /\ ~uploaded_files[1].doc.valid
    /\ errors = <<uploaded_files[1].name>>
    /\ all_entries # <<>>

\* the name a file that can be opened is listed under
ListedName(file) ==
    LET es == parse_pdf_schedule(file.doc, FallbackName(file.name))
    IN  IF es = <<>> THEN FallbackName(file.name) ELSE es[1].student

\* C10: after the loop every entry of all_entries has its student in
\* student_names, student_names has no duplicates and holds the names of the
\* files that did not fail only; with every name selected the student filter
\* keeps every entry.
C10_NamesCoverEntries ==
    (mode = "batch" /\ pc \in {"filter", "shown"}) =>
        /\ \A k \in 1..Len(all_entries) :
              \E n \in 1..Len(student_names) :
                  student_names[n] = all_entries[k].student
        /\ \A i \in 1..Len(student_names), j \in 1..Len(student_names) :
              i # j => student_names[i] # student_names[j]
        /\ SeqToSet(student_names) =
              {ListedName(uploaded_files[k]) :
                 k \in {j \in 1..Len(uploaded_files) :
                          uploaded_files[j].doc.valid}}
        /\ (pc = "shown" /\ selected_students = student_names)
              => filtered_entries = all_entries

\* C10 witness: one file failed, one was parsed under a detected name, every
\* name is selected and the filter kept the entries
C10_Witness ==
    /\ mode = "batch" /\ pc = "shown"
    /\ errors # <<>>
    /\ selected_students = student_names
    /\ all_entries # <<>> /\ filtered_entries = all_entries
    /\ student_names[1] \notin {FallbackName(f.name) : f \in FilePool}

(***************************************************************************)
(* The whole program                                                       *)
(***************************************************************************)
Init == InitName \/ InitParse \/ InitWeek \/ InitGrid \/ InitBatch

Next == NextName \/ NextParse \/ NextWeek \/ NextGrid \/ NextBatch

Spec == Init /\ [][Next]_vars

====
